---- MODULE Spec2Model ----
(***************************************************************************)
(* The Angular guidelines MCP server of src/src/index.ts: the tool and     *)
(* prompt request handlers, the section extractor, the example catalog     *)
(* and the nine-rule validator.                                            *)
(*                                                                         *)
(* Text is held in TLA+ strings and the string operations of the source    *)
(* (includes, startsWith, split, join, slice, toUpperCase) are computed on *)
(* them.  Five symbols of the source cannot be written in a TLA+ string   *)
(* literal and are written with stand-ins that occur nowhere else in the   *)
(* source texts:                                                           *)
(*     the backquote (U+0060)            is written  ^                     *)
(*     the cross mark (U+274C)           is written  ~X                    *)
(*     the warning sign (U+26A0 U+FE0F)  is written  ~W                    *)
(*     the light bulb (U+1F4A1)          is written  ~I                    *)
(*     the check mark (U+2705)           is written  ~K                    *)
(***************************************************************************)
EXTENDS Integers, Sequences, FiniteSets

VARIABLES
    phase,       \* "idle", "handling" (a request is in), "done" (its handler has run)
    request,     \* the request in hand (NoRequest when idle)
    outcome,     \* what its handler produced: a response, or a rejection
    thrown,      \* the failure raised inside its tool handler, if any
    guidelines,  \* the guideline document held by the process
    examples,    \* the example catalog held by the process
    earlier,     \* an answered request kept for comparison, with its outcome
    inbox        \* the requests the transport has read and not yet handed over

vars == <<phase, request, outcome, thrown, guidelines, examples, earlier, inbox>>

----------------------------------------------------------------------------
(* Bounds of the model. *)

\* A code argument is built from at most MaxFrags fragments of CodeFragments.
MaxFrags == 2

\* At most MaxBetween requests are answered after the one kept in `earlier`.
MaxBetween == 2

\* At most MaxInbox requests wait in the inbox.
MaxInbox == 2

----------------------------------------------------------------------------
(* JavaScript strings. *)

\* String.prototype.includes: t occurs in s as a substring (case-sensitive).
includes(s, t) ==
    \E i \in 1..(Len(s) - Len(t) + 1) : SubSeq(s, i, i + Len(t) - 1) = t

\* String.prototype.startsWith.
startsWith(s, t) == Len(t) <= Len(s) /\ SubSeq(s, 1, Len(t)) = t

\* String.prototype.split('\n'): the pieces of s between its line breaks, in
\* order; a string with n line breaks has n + 1 pieces (some may be empty).
split(s) ==
    LET cuts == {0} \cup {i \in 1..Len(s) : SubSeq(s, i, i) = "\n"} \cup {Len(s) + 1}
        rank(c) == Cardinality({d \in cuts : d < c})
        cut(k) == CHOOSE c \in cuts : rank(c) = k
    IN  [k \in 1..(Cardinality(cuts) - 1) |-> SubSeq(s, cut(k - 1) + 1, cut(k) - 1)]

\* Array.prototype.join('\n').
RECURSIVE join(_)
join(lines) ==
    IF lines = <<>> THEN ""
    ELSE IF Len(lines) = 1 THEN lines[1]
    ELSE lines[1] \o "\n" \o join(Tail(lines))

\* Array.prototype.findIndex, given the set of the 0-based indexes whose element
\* satisfies the callback: the first of them, or -1.
findIndex(hits) ==
    IF hits = {} THEN -1 ELSE CHOOSE i \in hits : \A j \in hits : i <= j

\* Array.prototype.slice(start, end), 0-based and end-exclusive, for
\* 0 <= start.
slice(lines, start, end) == SubSeq(lines, start + 1, end)

LowerCase == <<"a","b","c","d","e","f","g","h","i","j","k","l","m",
               "n","o","p","q","r","s","t","u","v","w","x","y","z">>
UpperCase == <<"A","B","C","D","E","F","G","H","I","J","K","L","M",
               "N","O","P","Q","R","S","T","U","V","W","X","Y","Z">>

\* String.prototype.toUpperCase on a string of at most one character.
toUpperCase(c) ==
    IF \E k \in 1..26 : LowerCase[k] = c
    THEN UpperCase[CHOOSE k \in 1..26 : LowerCase[k] = c]
    ELSE c

\* type.charAt(0).toUpperCase() + type.slice(1)
capitalize(s) == toUpperCase(SubSeq(s, 1, 1)) \o SubSeq(s, 2, Len(s))

----------------------------------------------------------------------------
(* JavaScript values, as far as the handlers look at them: t is the type,  *)
(* s what ToString gives (a template literal's ${...}, a property key), e  *)
(* the elements of an array of strings.                                    *)

Undefined == [t |-> "undefined", s |-> "undefined", e |-> <<>>]
Null      == [t |-> "null", s |-> "null", e |-> <<>>]
Str(x)    == [t |-> "string", s |-> x, e |-> <<>>]
\* A number, given by its decimal text.
Num(x)    == [t |-> "number", s |-> x, e |-> <<>>]
\* An array of strings: ToString joins the elements with commas.
RECURSIVE joinComma(_)
joinComma(elems) ==
    IF elems = <<>> THEN ""
    ELSE IF Len(elems) = 1 THEN elems[1]
    ELSE elems[1] \o "," \o joinComma(Tail(elems))
Arr(elems) == [t |-> "array", s |-> joinComma(elems), e |-> elems]
\* A built-in function and a plain object, as Object.prototype holds them.
NativeFunction(name) ==
    [t |-> "function", s |-> "function " \o name \o "() { [native code] }", e |-> <<>>]
PlainObject == [t |-> "object", s |-> "[object Object]", e |-> <<>>]
\* An object of a JSON argument, given by the names of its own members
\* (none of them a function).  Object.prototype.toString gives its text.
Obj(keys) == [t |-> "object", s |-> "[object Object]", e |-> keys]

\* The conversion of a value to a property key or to a string throws a
\* TypeError for an object whose own `toString` member hides the inherited
\* method: the member is not callable, and the inherited valueOf returns
\* the object itself.
ConversionThrows(v) == v.t = "object" /\ \E i \in 1..Len(v.e) : v.e[i] = "toString"
ConversionError == "Cannot convert object to primitive value"

ToString(v) == v.s

\* ToBoolean: what `if (v)`, `!v` and `v || d` test.
Truthy(v) ==
    CASE v.t \in {"undefined", "null"} -> FALSE
      [] v.t = "string" -> v.s # ""
      [] v.t = "number" -> v.s \notin {"0", "NaN"}
      [] OTHER -> TRUE

\* The properties every object literal inherits from Object.prototype.
ObjectPrototypeKeys ==
    {"constructor", "toString", "toLocaleString", "valueOf", "hasOwnProperty",
     "isPrototypeOf", "propertyIsEnumerable", "__proto__", "__defineGetter__",
     "__defineSetter__", "__lookupGetter__", "__lookupSetter__"}

ObjectPrototype(key) ==
    CASE key = "constructor" -> NativeFunction("Object")
      [] key = "__proto__" -> PlainObject
      [] OTHER -> NativeFunction(key)

\* obj[key] for an object literal with the own properties `own` (a function
\* from keys to strings): the own property, else the inherited one, else
\* undefined.  The key is converted with ToString; the callers throw
\* ConversionError first for a key whose conversion throws.
GetProperty(own, key) ==
    LET k == ToString(key)
    IN  IF k \in DOMAIN own THEN Str(own[k])
        ELSE IF k \in ObjectPrototypeKeys THEN ObjectPrototype(k)
        ELSE Undefined

----------------------------------------------------------------------------
(* The static content. *)

\* index.ts 11-52: the guideline document (a template literal; it starts and ends
\* with a line break).
ANGULAR_GUIDELINES ==
    "\n" \o
    "# TypeScript, Angular, and Scalable Web Application Best Practices\n" \o
    "\n" \o
    "You are an expert in TypeScript, Angular, and scalable web application development. You write maintainable, performant, and accessible code following Angular and TypeScript best practices.\n" \o
    "\n" \o
    "## TypeScript Best Practices\n" \o
    "- Use strict type checking  \n" \o
    "- Prefer type inference when the type is obvious  \n" \o
    "- Avoid the ^any^ type; use ^unknown^ when type is uncertain  \n" \o
    "\n" \o
    "## Angular Best Practices\n" \o
    "- Always use standalone components over NgModules  \n" \o
    "- Don't use explicit ^standalone: true^ (it is implied by default)  \n" \o
    "- Use signals for state management  \n" \o
    "- Implement lazy loading for feature routes  \n" \o
    "- Use ^NgOptimizedImage^ for all static images  \n" \o
    "\n" \o
    "## Components\n" \o
    "- Keep components small and focused on a single responsibility  \n" \o
    "- Use ^input()^ and ^output()^ functions instead of decorators  \n" \o
    "- Use ^computed()^ for derived state  \n" \o
    "- Set ^changeDetection: ChangeDetectionStrategy.OnPush^ in ^@Component^ decorator  \n" \o
    "- Prefer inline templates for small components  \n" \o
    "- Prefer Reactive forms instead of Template-driven ones  \n" \o
    "- Do NOT use ^ngClass^, use ^class^ bindings instead  \n" \o
    "- DO NOT use ^ngStyle^, use ^style^ bindings instead  \n" \o
    "\n" \o
    "## State Management\n" \o
    "- Use signals for local component state  \n" \o
    "- Use ^computed()^ for derived state  \n" \o
    "- Keep state transformations pure and predictable  \n" \o
    "\n" \o
    "## Templates\n" \o
    "- Keep templates simple and avoid complex logic  \n" \o
    "- Use native control flow (^@if^, ^@for^, ^@switch^) instead of ^*ngIf^, ^*ngFor^, ^*ngSwitch^  \n" \o
    "- Use the async pipe to handle observables  \n" \o
    "\n" \o
    "## Services\n" \o
    "- Design services around a single responsibility  \n" \o
    "- Use the ^providedIn: 'root'^ option for singleton services  \n" \o
    "- Use the ^inject()^ function instead of constructor injection\n"

\* index.ts 55-90: CODE_EXAMPLES.component.
CODE_EXAMPLES_component ==
    "\n" \o
    "// Good: Modern Angular component with signals\n" \o
    "import { Component, input, output, computed, ChangeDetectionStrategy } from '@angular/core';\n" \o
    "import { CommonModule } from '@angular/common';\n" \o
    "\n" \o
    "@Component({\n" \o
    "  selector: 'app-user-card',\n" \o
    "  template: ^\n" \o
    "    <div class=\"user-card\" \n" \o
    "         [class.active]=\"isActive()\"\n" \o
    "         [style.background-color]=\"backgroundColor()\">\n" \o
    "      @if (user(); as currentUser) {\n" \o
    "        <h3>{{ currentUser.name }}</h3>\n" \o
    "        <p>{{ currentUser.email }}</p>\n" \o
    "        @if (showActions()) {\n" \o
    "          <button (click)=\"onEdit()\">Edit</button>\n" \o
    "        }\n" \o
    "      }\n" \o
    "    </div>\n" \o
    "  ^,\n" \o
    "  changeDetection: ChangeDetectionStrategy.OnPush,\n" \o
    "  imports: [CommonModule]\n" \o
    "})\n" \o
    "export class UserCardComponent {\n" \o
    "  user = input.required<User>();\n" \o
    "  showActions = input(false);\n" \o
    "  userUpdated = output<User>();\n" \o
    "  \n" \o
    "  backgroundColor = computed(() => this.isActive() ? '#e3f2fd' : '#fff');\n" \o
    "  isActive = computed(() => this.user()?.status === 'active');\n" \o
    "  \n" \o
    "  onEdit() {\n" \o
    "    this.userUpdated.emit(this.user());\n" \o
    "  }\n" \o
    "}\n" \o
    "  "

\* index.ts 91-114: CODE_EXAMPLES.service.
CODE_EXAMPLES_service ==
    "\n" \o
    "// Good: Modern Angular service with inject()\n" \o
    "import { Injectable, inject } from '@angular/core';\n" \o
    "import { HttpClient } from '@angular/common/http';\n" \o
    "import { Observable, signal } from 'rxjs';\n" \o
    "\n" \o
    "@Injectable({\n" \o
    "  providedIn: 'root'\n" \o
    "})\n" \o
    "export class UserService {\n" \o
    "  private http = inject(HttpClient);\n" \o
    "  private users = signal<User[]>([]);\n" \o
    "  \n" \o
    "  readonly users$ = this.users.asReadonly();\n" \o
    "  \n" \o
    "  loadUsers(): Observable<User[]> {\n" \o
    "    return this.http.get<User[]>('/api/users');\n" \o
    "  }\n" \o
    "  \n" \o
    "  updateUsers(users: User[]) {\n" \o
    "    this.users.set(users);\n" \o
    "  }\n" \o
    "}\n" \o
    "  "

\* README "Test 6: Validate Good Code": the component a user is told to paste.
README_GOOD_EXAMPLE ==
    "// Good example - paste this in chat\n" \o
    "import { Component, input, output, computed, ChangeDetectionStrategy, inject } from '@angular/core';\n" \o
    "import { UserService } from './user.service';\n" \o
    "\n" \o
    "@Component({\n" \o
    "  selector: 'app-good-user',\n" \o
    "  template: ^\n" \o
    "    @if (user(); as currentUser) {\n" \o
    "      <div [class.active]=\"isActive()\" [style.color]=\"textColor()\">\n" \o
    "        <h3>{{ currentUser.name }}</h3>\n" \o
    "        @if (showEdit()) {\n" \o
    "          <button (click)=\"editUser()\">Edit</button>\n" \o
    "        }\n" \o
    "      </div>\n" \o
    "    }\n" \o
    "  ^,\n" \o
    "  changeDetection: ChangeDetectionStrategy.OnPush\n" \o
    "})\n" \o
    "export class GoodUserComponent {\n" \o
    "  private userService = inject(UserService);\n" \o
    "  \n" \o
    "  user = input.required<User>();\n" \o
    "  showEdit = input(false);\n" \o
    "  userEdit = output<User>();\n" \o
    "  \n" \o
    "  isActive = computed(() => this.user()?.status === 'active');\n" \o
    "  textColor = computed(() => this.isActive() ? '#007acc' : '#333');\n" \o
    "  \n" \o
    "  editUser() {\n" \o
    "    this.userEdit.emit(this.user());\n" \o
    "  }\n" \o
    "}"

\* README "Test 5: Review Bad Code": the component a user is told to paste.
README_BAD_EXAMPLE ==
    "// Bad example - paste this in chat\n" \o
    "import { Component, Input, Output, EventEmitter } from '@angular/core';\n" \o
    "\n" \o
    "@Component({\n" \o
    "  selector: 'app-bad-user',\n" \o
    "  template: ^\n" \o
    "    <div *ngIf=\"user\" [ngClass]=\"{'active': isActive}\" [ngStyle]=\"{'color': textColor}\">\n" \o
    "      <h3>{{ user.name }}</h3>\n" \o
    "      <button *ngIf=\"showEdit\" (click)=\"editUser()\">Edit</button>\n" \o
    "    </div>\n" \o
    "  ^\n" \o
    "})\n" \o
    "export class BadUserComponent {\n" \o
    "  @Input() user: any;\n" \o
    "  @Input() showEdit: boolean = false;\n" \o
    "  @Output() userEdit = new EventEmitter<any>();\n" \o
    "  \n" \o
    "  isActive: boolean = true;\n" \o
    "  textColor: string = '#333';\n" \o
    "  \n" \o
    "  constructor(private userService: UserService) {}\n" \o
    "  \n" \o
    "  editUser() {\n" \o
    "    this.userEdit.emit(this.user);\n" \o
    "  }\n" \o
    "}"

\* index.ts 54-115: the example catalog, an object literal with two keys.
CODE_EXAMPLES ==
    [k \in {"component", "service"} |->
        IF k = "component" THEN CODE_EXAMPLES_component ELSE CODE_EXAMPLES_service]

----------------------------------------------------------------------------
(* What a handler body does: it returns a text, or it throws. *)

Return(text)   == [threw |-> FALSE, message |-> "", text |-> text]
Throw(message) == [threw |-> TRUE, message |-> message, text |-> ""]
NoFailure      == [threw |-> FALSE, message |-> "", text |-> ""]

----------------------------------------------------------------------------
(* getAngularGuidelines, index.ts 295-331. *)

sectionMap ==
    [k \in {"typescript", "angular", "components", "state", "templates", "services"} |->
        CASE k = "typescript" -> "TypeScript Best Practices"
          [] k = "angular"    -> "Angular Best Practices"
          [] k = "components" -> "Components"
          [] k = "state"      -> "State Management"
          [] k = "templates"  -> "Templates"
          [] k = "services"   -> "Services"]

\* lines.findIndex(line => line.includes(sectionTitle))
startIndex(lines, sectionTitle) ==
    findIndex({index \in 0..(Len(lines) - 1) : includes(lines[index + 1], sectionTitle)})

\* The same search without `index > startIndex`.
nextSectionIndex_fromTop(lines, start, sectionTitle) ==
    findIndex({index \in 0..(Len(lines) - 1) :
        /\ startsWith(lines[index + 1], "## ")
        /\ ~includes(lines[index + 1], sectionTitle)})

\* lines.findIndex((line, index) => index > startIndex &&
\*                 line.startsWith('## ') && !line.includes(sectionTitle))
nextSectionIndex(lines, start, sectionTitle) ==
    findIndex({index \in 0..(Len(lines) - 1) :
        /\ index > start
        /\ startsWith(lines[index + 1], "## ")
        /\ ~includes(lines[index + 1], sectionTitle)})

\* The same without the test `startIndex !== -1`: for a phrase on no line
\* lines.slice(-1, endIndex) is empty, and the text is the empty string.
sectionContent_noFallback(content, section) ==
    LET sectionTitle == GetProperty(sectionMap, section)
        title == ToString(sectionTitle)
        lines == split(content)
        start == startIndex(lines, title)
        next  == nextSectionIndex(lines, start, title)
        endIndex == IF next # -1 THEN next ELSE Len(lines)
    IN  IF Truthy(section) /\ section # Str("all") /\ Truthy(sectionTitle)
        THEN IF start # -1 THEN join(slice(lines, start, endIndex)) ELSE ""
        ELSE content

\* The text of the response: the whole document, or the lines of one section.
sectionContent(content, section) ==
    LET sectionTitle == GetProperty(sectionMap, section)
        title == ToString(sectionTitle)
        lines == split(content)
        start == startIndex(lines, title)
        next  == nextSectionIndex(lines, start, title)
        endIndex == IF next # -1 THEN next ELSE Len(lines)
    IN  IF Truthy(section) /\ section # Str("all") /\ Truthy(sectionTitle) /\ start # -1
        THEN join(slice(lines, start, endIndex))
        ELSE content

\* index.ts 298, 308: sectionMap[section] is evaluated for a truthy section
\* other than 'all', and throws when the key does not convert.
getAngularGuidelines(section) ==
    IF Truthy(section) /\ section # Str("all") /\ ConversionThrows(section)
    THEN Throw(ConversionError)
    ELSE Return(sectionContent(guidelines, section))

\* The section written back to the document the process holds, where the
\* source assigns its local `content`.
guidelinesAfterTool_assigned(name, args) ==
    IF name = "get_angular_guidelines" THEN sectionContent(guidelines, args.section)
    ELSE guidelines

\* index.ts 296, 318: the tool methods assign the local `content` only; the
\* document the process holds is the same after a call_tool as before.
guidelinesAfterTool(name, args) == guidelines

----------------------------------------------------------------------------
(* getCodeExample, index.ts 333-358. *)

\* The heading built from the key as given, not capitalized, and the two
\* entries of 'all' in the other order.
getCodeExample_plain(type) ==
    IF type = Str("all")
    THEN Return("# Angular Code Examples\n\n## Service Example" \o examples["service"]
                \o "\n\n## Component Example" \o examples["component"])
    ELSE IF ConversionThrows(type) THEN Throw(ConversionError)
    ELSE LET example == GetProperty(examples, type)
         IN  IF ~Truthy(example)
             THEN Throw("No example available for type: " \o ToString(type))
             ELSE Return("# " \o ToString(type) \o " Example\n" \o ToString(example))

getCodeExample(type) ==
    IF type = Str("all")
    THEN Return("# Angular Code Examples\n\n## Component Example" \o examples["component"]
                \o "\n\n## Service Example" \o examples["service"])
    ELSE IF ConversionThrows(type) THEN Throw(ConversionError)
    ELSE LET example == GetProperty(examples, type)
         IN  IF ~Truthy(example)
             THEN Throw("No example available for type: " \o ToString(type))
             ELSE IF type.t # "string"
             THEN Throw("type.charAt is not a function")
             ELSE Return("# " \o capitalize(type.s) \o " Example\n" \o ToString(example))

----------------------------------------------------------------------------
(* validateCode, index.ts 360-416. *)

\* code.includes(needle): String.prototype.includes on a string,
\* Array.prototype.includes on an array.
codeIncludes(code, needle) ==
    IF code.t = "string" THEN includes(code.s, needle)
    ELSE \E i \in 1..Len(code.e) : code.e[i] = needle

\* if (cond) issues.push(message)
push(cond, message) == IF cond THEN <<message>> ELSE <<>>

\* index.ts 364-382: the five checks made for every type.
basicChecks(code) ==
    push(codeIncludes(code, "any"),
         "~X Avoid using \"any\" type - use specific types or \"unknown\" instead")
    \o push(codeIncludes(code, "*ngIf") \/ codeIncludes(code, "*ngFor")
                \/ codeIncludes(code, "*ngSwitch"),
         "~X Use native control flow (@if, @for, @switch) instead of structural directives")
    \o push(codeIncludes(code, "ngClass"),
         "~X Use [class] bindings instead of ngClass")
    \o push(codeIncludes(code, "ngStyle"),
         "~X Use [style] bindings instead of ngStyle")
    \o push(codeIncludes(code, "@Input()") \/ codeIncludes(code, "@Output()"),
         "~W Consider using input() and output() functions instead of decorators")

\* A slip in the second check: || where the source has &&.
componentChecks_either(code) ==
    push(~codeIncludes(code, "ChangeDetectionStrategy.OnPush"),
         "~W Consider using OnPush change detection strategy for better performance")
    \o push(~codeIncludes(code, "signal(") \/ ~codeIncludes(code, "computed("),
         "~I Consider using signals for state management")

\* index.ts 385-391: the checks under type === 'component'.
componentChecks(code) ==
    push(~codeIncludes(code, "ChangeDetectionStrategy.OnPush"),
         "~W Consider using OnPush change detection strategy for better performance")
    \o push(~codeIncludes(code, "signal(") /\ ~codeIncludes(code, "computed("),
         "~I Consider using signals for state management")

\* index.ts 395-401: the checks under type === 'service'.
serviceChecks(code) ==
    push(~codeIncludes(code, "inject("),
         "~W Consider using inject() function instead of constructor injection")
    \o push(~codeIncludes(code, "providedIn: 'root'"),
         "~I Consider using providedIn: \"root\" for singleton services")

\* A short circuit: the checks by type are skipped once a basic check fired.
issues_shortCircuit(code, type) ==
    IF basicChecks(code) # <<>> THEN basicChecks(code)
    ELSE IF type = Str("component") THEN componentChecks(code)
    ELSE IF type = Str("service") THEN serviceChecks(code)
    ELSE <<>>

\* index.ts 361-402: the issues array after all the checks.
issues(code, type) ==
    basicChecks(code)
    \o (IF type = Str("component") THEN componentChecks(code) ELSE <<>>)
    \o (IF type = Str("service") THEN serviceChecks(code) ELSE <<>>)

\* issues.map(issue => `- ${issue}`)
RECURSIVE bullets(_)
bullets(list) ==
    IF list = <<>> THEN <<>> ELSE <<"- " \o Head(list)>> \o bullets(Tail(list))

\* The guideline document left out of the answer with issues.
result_noGuidelines(list) ==
    IF Len(list) > 0
    THEN "# Code Validation Results\n\n## Issues Found:\n" \o join(bullets(list))
    ELSE "# Code Validation Results\n\n~K Code looks good! No major issues found."
         \o "\n\n## Guidelines:\n" \o guidelines

\* index.ts 404-406: the text of the response.
result(list) ==
    IF Len(list) > 0
    THEN "# Code Validation Results\n\n## Issues Found:\n" \o join(bullets(list))
         \o "\n\n## Guidelines:\n" \o guidelines
    ELSE "# Code Validation Results\n\n~K Code looks good! No major issues found."
         \o "\n\n## Guidelines:\n" \o guidelines

\* A guard `if (!code) throw` added in front: the empty string is refused too.
validateCode_guarded(code, type) ==
    IF ~Truthy(code)
    THEN Throw("code is required")
    ELSE IF code.t \notin {"string", "array"}
    THEN Throw("code.includes is not a function")
    ELSE Return(result(issues(code, type)))

\* code.includes(...) at index.ts 364 throws a TypeError when code is
\* undefined or null, or has no includes method (the messages are V8's).
validateCode(code, type) ==
    IF code.t \in {"undefined", "null"}
    THEN Throw("Cannot read properties of " \o code.s \o " (reading 'includes')")
    ELSE IF code.t \notin {"string", "array"}
    THEN Throw("code.includes is not a function")
    ELSE Return(result(issues(code, type)))

----------------------------------------------------------------------------
(* Requests and outcomes. *)

\* The arguments mapping of a request; a key the caller left out is
\* undefined, and so is every key when the caller sent no mapping (args?.x).
NoArgs ==
    [section |-> Undefined, type |-> Undefined, code |-> Undefined,
     componentName |-> Undefined, features |-> Undefined]

Request(method, name, args) == [method |-> method, name |-> name, args |-> args]

NoRequest == Request("none", "", NoArgs)

NoOutcome ==
    [kind |-> "none", keys |-> {}, content |-> <<>>, isError |-> FALSE,
     tools |-> <<>>, prompts |-> <<>>, messages |-> <<>>, error |-> ""]

TextBlock(text) == [type |-> "text", text |-> text]

\* The switch without its try/catch: a throw leaves the handler.
toolEnvelope_uncaught(r) ==
    IF r.threw
    THEN [NoOutcome EXCEPT !.kind = "rejected", !.error = r.message]
    ELSE [NoOutcome EXCEPT !.kind = "response", !.keys = {"content"},
                           !.content = <<TextBlock(r.text)>>]

\* index.ts 193-221: what the CallTool handler returns for what the switch did:
\* the handler's own envelope (content only), or the catch block's.
toolEnvelope(r) ==
    IF r.threw
    THEN [NoOutcome EXCEPT !.kind = "response", !.keys = {"content", "isError"},
                           !.content = <<TextBlock("Error: " \o r.message)>>,
                           !.isError = TRUE]
    ELSE [NoOutcome EXCEPT !.kind = "response", !.keys = {"content"},
                           !.content = <<TextBlock(r.text)>>]

\* The switch with the third case left out.
dispatchTool_twoCases(name, args) ==
    CASE name = "get_angular_guidelines" -> getAngularGuidelines(args.section)
      [] name = "get_code_example"       -> getCodeExample(args.type)
      [] OTHER -> Throw("Unknown tool: " \o name)

\* index.ts 197-209: the switch on the tool name.
dispatchTool(name, args) ==
    CASE name = "get_angular_guidelines" -> getAngularGuidelines(args.section)
      [] name = "get_code_example"       -> getCodeExample(args.type)
      [] name = "validate_angular_code"  -> validateCode(args.code, args.type)
      [] OTHER -> Throw("Unknown tool: " \o name)

\* index.ts 138-191: the tools of list_tools, with the properties of each input
\* schema and the required ones.
toolList ==
    << [name |-> "get_angular_guidelines", properties |-> {"section"}, required |-> {}],
       [name |-> "get_code_example", properties |-> {"type"}, required |-> {"type"}],
       [name |-> "validate_angular_code", properties |-> {"code", "type"},
        required |-> {"code"}] >>

\* index.ts 225-257: the prompts of list_prompts.
promptList ==
    << [name |-> "angular_code_review", arguments |-> {"code"}, required |-> {"code"}],
       [name |-> "create_angular_component", arguments |-> {"componentName", "features"},
        required |-> {"componentName"}] >>

UserMessage(text) == [role |-> "user", type |-> "text", text |-> text]

\* index.ts 270: the text of the angular_code_review message; the template
\* literal converts args.code to a string, and throws when it does not convert.
codeReviewText(args) ==
    IF ConversionThrows(args.code) THEN Throw(ConversionError)
    ELSE Return(
        "Please review this Angular/TypeScript code for best practices compliance:\n\n"
        \o ToString(args.code) \o "\n\nCheck against these guidelines:\n"
        \o guidelines \o "\n\nProvide specific feedback on what can be improved.")

\* index.ts 283: the text of the create_angular_component message; the
\* template literal converts args.componentName and, when it is truthy,
\* args.features to strings, and throws when one does not convert.
createComponentText(args) ==
    IF \/ ConversionThrows(args.componentName)
       \/ Truthy(args.features) /\ ConversionThrows(args.features)
    THEN Throw(ConversionError)
    ELSE Return(
        "Create a new Angular component named \"" \o ToString(args.componentName)
        \o "\" following these best practices:\n" \o guidelines
        \o "\n\nFeatures requested: "
        \o (IF Truthy(args.features) THEN ToString(args.features)
            ELSE "Basic component structure")
        \o "\n\nEnsure the component uses modern Angular features like signals, standalone components, and proper TypeScript typing.")

\* index.ts 264-274, 277-287: a response holding one user message.
promptResponse(text) ==
    [NoOutcome EXCEPT !.kind = "response", !.keys = {"messages"},
                      !.messages = <<UserMessage(text)>>]

\* index.ts 259: the handler is an async function, so what is thrown in it
\* rejects the request with the failure's message.
promptRejection(message) == [NoOutcome EXCEPT !.kind = "rejected", !.error = message]

\* The message built from the template, or the rejection when building it throws.
promptOutcome(r) == IF r.threw THEN promptRejection(r.message) ELSE promptResponse(r.text)

\* The unknown name answered the way the tool path answers it.
getPrompt_enveloped(name, args) ==
    CASE name = "angular_code_review" -> promptOutcome(codeReviewText(args))
      [] name = "create_angular_component" -> promptOutcome(createComponentText(args))
      [] OTHER ->
           [NoOutcome EXCEPT !.kind = "response", !.keys = {"content", "isError"},
                             !.content = <<TextBlock("Error: Unknown prompt: " \o name)>>,
                             !.isError = TRUE]

\* index.ts 259-292: the GetPrompt handler: one user message, or a throw that
\* nothing in the handler catches.
getPrompt(name, args) ==
    CASE name = "angular_code_review" -> promptOutcome(codeReviewText(args))
      [] name = "create_angular_component" -> promptOutcome(createComponentText(args))
      [] OTHER -> promptRejection("Unknown prompt: " \o name)

----------------------------------------------------------------------------
(* The requests the model sends. *)

ToolNames ==
    {"get_angular_guidelines", "get_code_example", "validate_angular_code",
     "bogus_tool", "angular_code_review", "Validate_Angular_Code", ""}

PromptNames ==
    {"angular_code_review", "create_angular_component", "bogus_prompt",
     "get_code_example", "Angular_Code_Review", ""}

SectionNames == {"typescript", "angular", "components", "state", "templates", "services"}

SectionValues ==
    {Undefined, Null, Num("0"), Num("42"), Arr(<<"state">>), Arr(<<"state", "all">>),
     Obj(<<>>), Obj(<<"valueOf">>), Obj(<<"toString">>), Obj(<<"state", "toString">>)}
    \cup {Str(x) : x \in SectionNames}
    \cup {Str(x) : x \in {"all", "", "bogus", "Components", "State", "constructor",
                          "__proto__", "toString"}}

ExampleTypeValues ==
    {Undefined, Null, Num("42"), Arr(<<"component">>), Arr(<<"all">>),
     Obj(<<>>), Obj(<<"toString">>)}
    \cup {Str(x) : x \in {"component", "service", "all", "", "bogus", "Component",
                          "undefined", "constructor", "toString", "hasOwnProperty",
                          "__proto__"}}

ValidateTypeValues ==
    {Undefined, Str("component"), Str("service"), Str("general"), Str("bogus")}

\* The pieces code arguments are built from.  Some needles of the validator
\* only arise across a join ("*ng" + "If", "m" + "any").
CodeFragments ==
    {"any", "Any", "m", "*ng", "If", "*ngFor", "*ngSwitch", "ngClass", "ngStyle",
     "@Input()", "@Output()", "ChangeDetectionStrategy.OnPush", "signal(",
     "computed(", "inject(", "providedIn: 'root'"}

RECURSIVE Concats(_)
Concats(n) ==
    IF n = 0 THEN {""}
    ELSE LET shorter == Concats(n - 1)
         IN  shorter \cup {a \o f : a \in shorter, f \in CodeFragments}

\* The shipped texts a caller may send as code.
ShippedCode ==
    {CODE_EXAMPLES_component, CODE_EXAMPLES_service, README_GOOD_EXAMPLE,
     README_BAD_EXAMPLE, "let x: any = 1"}

CodeStrings == Concats(MaxFrags) \cup ShippedCode

CodeValues ==
    {Undefined, Null, Num("42"), Arr(<<"any">>), Arr(<<"many", "ngClass">>)}
    \cup {Str(x) : x \in CodeStrings}

\* code values sent to every tool name, the validator's or not.
SampleCodeValues == {Undefined, Str(""), Str("any"), Num("42")}

SectionArgs == {[NoArgs EXCEPT !.section = v] : v \in SectionValues}
ExampleArgs == {[NoArgs EXCEPT !.type = v] : v \in ExampleTypeValues}
CodeArgs(codes) ==
    {[NoArgs EXCEPT !.code = c, !.type = t] : c \in codes, t \in ValidateTypeValues}

ToolCalls ==
    {<<n, a>> : n \in ToolNames,
                a \in SectionArgs \cup ExampleArgs \cup CodeArgs(SampleCodeValues)}
    \cup {<<"validate_angular_code", a>> : a \in CodeArgs(CodeValues)}

\* Prompt arguments are strings on the wire (or left out).
PromptArgs ==
    {[NoArgs EXCEPT !.code = c, !.componentName = n, !.features = f] :
        c \in {Undefined, Str("let x: any = 1"), Obj(<<>>), Obj(<<"toString">>)},
        n \in {Undefined, Str("UserCard"), Obj(<<>>), Obj(<<"toString">>)},
        f \in {Undefined, Str(""), Str("two inputs and one output"), Obj(<<>>),
               Obj(<<"toString">>)}}

----------------------------------------------------------------------------
(* The state machine.  The transport hands the server one request         *)
(* (Receive); the handler registered for its method runs to its end in one *)
(* step, since no handler awaits anything; the transport sends what the    *)
(* handler produced and the server holds no request again (Respond).       *)

Requests ==
    {Request("tools/list", "", NoArgs), Request("prompts/list", "", NoArgs)}
    \cup {Request("tools/call", call[1], call[2]) : call \in ToolCalls}
    \cup {Request("prompts/get", name, args) : name \in PromptNames, args \in PromptArgs}

\* Nothing kept for comparison.
NoEarlier == [request |-> NoRequest, outcome |-> NoOutcome, since |-> 0]

Init ==
    /\ phase = "idle"
    /\ request = NoRequest
    /\ outcome = NoOutcome
    /\ thrown = NoFailure
    /\ guidelines = ANGULAR_GUIDELINES
    /\ examples = CODE_EXAMPLES
    /\ earlier = NoEarlier
    /\ inbox = <<>>

\* index.ts 429-433: the transport connected by run() delivers a request.
Receive ==
    /\ phase = "idle"
    /\ \E req \in Requests : request' = req
    /\ phase' = "handling"
    /\ UNCHANGED <<outcome, thrown, guidelines, examples, earlier, inbox>>

\* index.ts 138-191
ListTools ==
    /\ phase = "handling"
    /\ request.method = "tools/list"
    /\ outcome' = [NoOutcome EXCEPT !.kind = "response", !.keys = {"tools"},
                                    !.tools = toolList]
    /\ phase' = "done"
    /\ UNCHANGED <<request, thrown, guidelines, examples, earlier, inbox>>

\* The handler awaiting before it has its result: control is back with the
\* event loop, the request is still in hand and no outcome is produced.
CallTool_suspended ==
    /\ phase = "handling"
    /\ request.method = "tools/call"
    /\ phase' = "idle"
    /\ UNCHANGED <<request, outcome, thrown, guidelines, examples, earlier, inbox>>

\* index.ts 193-221
CallTool ==
    /\ phase = "handling"
    /\ request.method = "tools/call"
    /\ LET r == dispatchTool(request.name, request.args)
       IN  /\ outcome' = toolEnvelope(r)
           /\ thrown' = IF r.threw THEN Throw(r.message) ELSE NoFailure
    /\ phase' = "done"
    /\ guidelines' = guidelinesAfterTool(request.name, request.args)
    /\ UNCHANGED <<request, examples, earlier, inbox>>

\* index.ts 225-257
ListPrompts ==
    /\ phase = "handling"
    /\ request.method = "prompts/list"
    /\ outcome' = [NoOutcome EXCEPT !.kind = "response", !.keys = {"prompts"},
                                    !.prompts = promptList]
    /\ phase' = "done"
    /\ UNCHANGED <<request, thrown, guidelines, examples, earlier, inbox>>

\* index.ts 259-292
GetPrompt ==
    /\ phase = "handling"
    /\ request.method = "prompts/get"
    /\ outcome' = getPrompt(request.name, request.args)
    /\ phase' = "done"
    /\ UNCHANGED <<request, thrown, guidelines, examples, earlier, inbox>>

\* The transport sends the response (or the rejection) of the handled request.
\* `earlier.since` counts the requests answered after the one kept.
Respond ==
    /\ phase = "done"
    /\ earlier.request # NoRequest => earlier.since < MaxBetween
    /\ phase' = "idle"
    /\ request' = NoRequest
    /\ outcome' = NoOutcome
    /\ thrown' = NoFailure
    /\ earlier' = IF earlier.request = NoRequest THEN earlier
                  ELSE [earlier EXCEPT !.since = @ + 1]
    /\ UNCHANGED <<guidelines, examples, inbox>>

Next == Receive \/ ListTools \/ CallTool \/ ListPrompts \/ GetPrompt \/ Respond

Spec == Init /\ [][Next]_vars

----------------------------------------------------------------------------
(* A session: requests of every kind, answered and failing, in any order   *)
(* and any number of times; one answered request is kept with its outcome  *)
(* to compare a later, identical request with.                             *)

SessionRequests ==
    {Request("tools/list", "", NoArgs),
     Request("prompts/list", "", NoArgs),
     Request("tools/call", "get_angular_guidelines", [NoArgs EXCEPT !.section = Str("state")]),
     Request("tools/call", "get_angular_guidelines", NoArgs),
     Request("tools/call", "get_code_example", [NoArgs EXCEPT !.type = Str("all")]),
     Request("tools/call", "get_code_example", [NoArgs EXCEPT !.type = Str("bogus")]),
     Request("tools/call", "validate_angular_code",
             [NoArgs EXCEPT !.code = Str("any"), !.type = Str("component")]),
     Request("tools/call", "validate_angular_code", NoArgs),
     Request("tools/call", "bogus_tool", NoArgs),
     Request("prompts/get", "angular_code_review", [NoArgs EXCEPT !.code = Str("let x: any = 1")]),
     Request("prompts/get", "create_angular_component",
             [NoArgs EXCEPT !.componentName = Str("UserCard")]),
     Request("prompts/get", "bogus_prompt", NoArgs)}

\* index.ts 429-433: the transport delivers a request of the session.
ReceiveSession ==
    /\ phase = "idle"
    /\ \E req \in SessionRequests : request' = req
    /\ phase' = "handling"
    /\ UNCHANGED <<outcome, thrown, guidelines, examples, earlier, inbox>>

\* The transport sends the outcome, and the request is kept with it.
RespondRemember ==
    /\ phase = "done"
    /\ earlier' = [request |-> request, outcome |-> outcome, since |-> 0]
    /\ phase' = "idle"
    /\ request' = NoRequest
    /\ outcome' = NoOutcome
    /\ thrown' = NoFailure
    /\ UNCHANGED <<guidelines, examples, inbox>>

NextSession ==
    \/ ReceiveSession
    \/ ListTools
    \/ CallTool
    \/ ListPrompts
    \/ GetPrompt
    \/ Respond
    \/ RespondRemember

SpecSession == Init /\ [][NextSession]_vars

----------------------------------------------------------------------------
(* A stream of inbound requests.  The transport reads requests while the   *)
(* server works; the event loop hands the next one to its handler when no  *)
(* handler runs and the outcome of the one before has been handed back.    *)
(* The event loop runs every job that is ready, so each step of the server *)
(* that stays enabled is taken: weak fairness on all but the reading.      *)

StreamRequests ==
    {Request("tools/list", "", NoArgs),
     Request("prompts/list", "", NoArgs),
     Request("tools/call", "validate_angular_code",
             [NoArgs EXCEPT !.code = Str("any"), !.type = Str("component")]),
     Request("tools/call", "get_code_example", [NoArgs EXCEPT !.type = Str("bogus")]),
     Request("prompts/get", "create_angular_component",
             [NoArgs EXCEPT !.componentName = Str("UserCard")]),
     Request("prompts/get", "bogus_prompt", NoArgs)}

\* The transport reads one more request from its input.
Accept ==
    /\ Len(inbox) < MaxInbox
    /\ \E req \in StreamRequests : inbox' = Append(inbox, req)
    /\ UNCHANGED <<phase, request, outcome, thrown, guidelines, examples, earlier>>

\* The event loop, free, starts the handling of the oldest request read.
Take ==
    /\ phase = "idle"
    /\ inbox # <<>>
    /\ request' = Head(inbox)
    /\ inbox' = Tail(inbox)
    /\ outcome' = NoOutcome
    /\ thrown' = NoFailure
    /\ phase' = "handling"
    /\ UNCHANGED <<guidelines, examples, earlier>>

NextStream ==
    \/ Accept
    \/ Take
    \/ ListTools
    \/ CallTool
    \/ ListPrompts
    \/ GetPrompt
    \/ Respond

\* index.ts 138, 193, 225, 259: the handlers are async functions holding no
\* await, so a handler that has started runs to its result.
FairStream ==
    /\ WF_vars(Take)
    /\ WF_vars(ListTools)
    /\ WF_vars(CallTool)
    /\ WF_vars(ListPrompts)
    /\ WF_vars(GetPrompt)
    /\ WF_vars(Respond)

SpecStream == Init /\ [][NextStream]_vars /\ FairStream

----------------------------------------------------------------------------
(* What the properties below read off a state. *)

\* The handler of a call_tool / get_prompt request has run.
\* An object argument with an own member named toString.
HasOwnToString(v) == v.t = "object" /\ "toString" \in {v.e[i] : i \in 1..Len(v.e)}

ToolCallDone == phase = "done" /\ request.method = "tools/call"
PromptGetDone == phase = "done" /\ request.method = "prompts/get"
ToolDone(name) == ToolCallDone /\ request.name = name

\* The text of the single content block of a tool response ("" if there is none).
ResponseText == IF Len(outcome.content) = 1 THEN outcome.content[1].text ELSE ""

\* A response holding exactly one text block and no isError key.
SuccessEnvelope ==
    /\ outcome.kind = "response"
    /\ outcome.keys = {"content"}
    /\ Len(outcome.content) = 1
    /\ outcome.content[1].type = "text"
    /\ ~outcome.isError

\* A response holding isError = true and exactly one text block, "Error: "
\* followed by the message.
FailureEnvelope(message) ==
    /\ outcome.kind = "response"
    /\ outcome.keys = {"content", "isError"}
    /\ outcome.isError
    /\ outcome.content = <<[type |-> "text", text |-> "Error: " \o message]>>

ErrorFlagged == outcome.kind = "response" /\ "isError" \in outcome.keys /\ outcome.isError

endsWith(s, t) == Len(t) <= Len(s) /\ SubSeq(s, Len(s) - Len(t) + 1, Len(s)) = t

\* The places (1-based) where t occurs in s.
Occurrences(s, t) == {i \in 1..(Len(s) - Len(t) + 1) : SubSeq(s, i, i + Len(t) - 1) = t}

SuccessBanner == "Code looks good! No major issues found."

\* What a validation text ends with: the "## Guidelines:" heading and the
\* whole guideline document.
GuidelinesTail == "\n\n## Guidelines:\n" \o ANGULAR_GUIDELINES

\* A validation text without that ending (the text itself if it ends otherwise).
ValidationTop(text) ==
    IF endsWith(text, GuidelinesTail)
    THEN SubSeq(text, 1, Len(text) - Len(GuidelinesTail))
    ELSE text

\* The lines listed under "## Issues Found:" in a validation text, up to the
\* first empty line or the "## Guidelines:" ending; none when the text has no
\* such heading.
IssueLines(text) ==
    LET lines == split(ValidationTop(text))
        heads == {i \in 1..Len(lines) : lines[i] = "## Issues Found:"}
        h == CHOOSE i \in heads : \A j \in heads : i <= j
        blanks == {j \in (h + 1)..Len(lines) : lines[j] = ""}
        e == IF blanks = {} THEN Len(lines) + 1
             ELSE CHOOSE j \in blanks : \A k \in blanks : j <= k
    IN  IF heads = {} THEN <<>> ELSE SubSeq(lines, h + 1, e - 1)

\* The guideline ending holds neither the banner nor an "Issues Found" heading.
BannerInGuidelines == includes(GuidelinesTail, SuccessBanner)
IssuesFoundInGuidelines == includes(GuidelinesTail, "Issues Found")

\* A validation text holds the phrase (a phrase without line break: as the
\* guideline ending starts with a line break, the phrase lies before the
\* ending or inside it).
ShowsBanner(text) == includes(ValidationTop(text), SuccessBanner) \/ BannerInGuidelines
ShowsIssuesFound(text) ==
    includes(ValidationTop(text), "Issues Found") \/ IssuesFoundInGuidelines

----------------------------------------------------------------------------
\* C1: call_tool answers with the failure envelope "Error: Unknown tool:
\* <name>" exactly when the name is none of get_angular_guidelines,
\* get_code_example, validate_angular_code, which are the names list_tools
\* gives, in that order; for each of the three the answer is that of the
\* matching handler.
C1_UnknownToolExactlyForUnlistedNames ==
    /\ (phase = "done" /\ request.method = "tools/list") =>
          [i \in 1..Len(outcome.tools) |-> outcome.tools[i].name]
             = <<"get_angular_guidelines", "get_code_example", "validate_angular_code">>
    /\ ToolCallDone =>
          /\ FailureEnvelope("Unknown tool: " \o request.name)
                <=> request.name \notin
                       {"get_angular_guidelines", "get_code_example", "validate_angular_code"}
          /\ request.name = "get_angular_guidelines" =>
                LET r == getAngularGuidelines(request.args.section)
                IN  IF r.threw THEN FailureEnvelope(r.message)
                    ELSE SuccessEnvelope /\ ResponseText = r.text
          /\ request.name = "get_code_example" =>
                LET r == getCodeExample(request.args.type)
                IN  IF r.threw THEN FailureEnvelope(r.message)
                    ELSE SuccessEnvelope /\ ResponseText = r.text
          /\ request.name = "validate_angular_code" =>
                LET r == validateCode(request.args.code, request.args.type)
                IN  IF r.threw THEN FailureEnvelope(r.message)
                    ELSE SuccessEnvelope /\ ResponseText = r.text

C1_Witness ==
    /\ ToolDone("bogus_tool")
    /\ outcome.isError
    /\ ResponseText = "Error: Unknown tool: bogus_tool"

\* C2: whatever the name and the arguments of a call_tool request, the
\* outcome is a response with exactly one text block: without isError when
\* nothing was thrown in the handler, and with isError = true and the text
\* "Error: " + the failure's message when something was.
C2_NoFailureEscapesTheDispatcher ==
    ToolCallDone =>
        /\ outcome.kind = "response"
        /\ Len(outcome.content) = 1
        /\ outcome.content[1].type = "text"
        /\ IF thrown.threw THEN FailureEnvelope(thrown.message) ELSE SuccessEnvelope

C2_Witness ==
    /\ ToolDone("validate_angular_code")
    /\ request.args.code = Num("42")
    /\ thrown.threw
    /\ ResponseText = "Error: code.includes is not a function"
    /\ outcome.isError

C4_UnrecognizedTypeIsAnError ==
    (/\ ToolDone("get_code_example")
     /\ \/ request.args.type = Undefined
        \/ /\ request.args.type.t = "string"
           /\ request.args.type.s \notin {"component", "service", "all"})
    => /\ ErrorFlagged
       /\ Len(outcome.content) = 1
       /\ startsWith(ResponseText, "Error: ")

\* The phrase the claim gives each section name.
SectionPhrase(name) ==
    CASE name = "typescript" -> "TypeScript Best Practices"
      [] name = "angular"    -> "Angular Best Practices"
      [] name = "components" -> "Components"
      [] name = "state"      -> "State Management"
      [] name = "templates"  -> "Templates"
      [] name = "services"   -> "Services"

\* C5: for each of the six section names get_angular_guidelines returns a
\* non-empty run of consecutive lines of the document: it starts at the "## "
\* heading of the section, the first line holding the section's phrase, and
\* ends just before the next "## " heading or at the last line of the
\* document, so no other heading is in it.
C5_SectionIsTheRunUnderItsHeading ==
    (/\ ToolDone("get_angular_guidelines")
     /\ request.args.section.t = "string"
     /\ request.args.section.s \in
           {"typescript", "angular", "components", "state", "templates", "services"})
    => LET doc == split(ANGULAR_GUIDELINES)
           out == split(ResponseText)
           phrase == SectionPhrase(request.args.section.s)
           holders == {i \in 1..Len(doc) : includes(doc[i], phrase)}
           a == CHOOSE i \in holders : \A j \in holders : i <= j
           b == a + Len(out) - 1
       IN  /\ SuccessEnvelope
           /\ ResponseText # ""
           /\ holders # {}
           /\ startsWith(doc[a], "## ")
           /\ b <= Len(doc)
           /\ out = SubSeq(doc, a, b)
           /\ b = Len(doc) \/ startsWith(doc[b + 1], "## ")
           /\ \A j \in (a + 1)..b : ~startsWith(doc[j], "## ")

C5_Witness ==
    /\ ToolDone("get_angular_guidelines")
    /\ request.args.section = Str("components")
    /\ startsWith(ResponseText, "## Components\n- Keep components small")
    /\ endsWith(ResponseText, "use ^style^ bindings instead  \n")

\* The nine rules of the claim: whether rule k holds of a code text and a type.
RuleHolds(k, code, type) ==
    CASE k = 1 -> includes(code, "any")
      [] k = 2 -> includes(code, "*ngIf") \/ includes(code, "*ngFor")
                     \/ includes(code, "*ngSwitch")
      [] k = 3 -> includes(code, "ngClass")
      [] k = 4 -> includes(code, "ngStyle")
      [] k = 5 -> includes(code, "@Input()") \/ includes(code, "@Output()")
      [] k = 6 -> type = Str("component")
                     /\ ~includes(code, "ChangeDetectionStrategy.OnPush")
      [] k = 7 -> type = Str("component")
                     /\ ~includes(code, "signal(") /\ ~includes(code, "computed(")
      [] k = 8 -> type = Str("service") /\ ~includes(code, "inject(")
      [] k = 9 -> type = Str("service") /\ ~includes(code, "providedIn: 'root'")

\* The message of rule k.
RuleMessage(k) ==
    CASE k = 1 -> "~X Avoid using \"any\" type - use specific types or \"unknown\" instead"
      [] k = 2 -> "~X Use native control flow (@if, @for, @switch) instead of structural directives"
      [] k = 3 -> "~X Use [class] bindings instead of ngClass"
      [] k = 4 -> "~X Use [style] bindings instead of ngStyle"
      [] k = 5 -> "~W Consider using input() and output() functions instead of decorators"
      [] k = 6 -> "~W Consider using OnPush change detection strategy for better performance"
      [] k = 7 -> "~I Consider using signals for state management"
      [] k = 8 -> "~W Consider using inject() function instead of constructor injection"
      [] k = 9 -> "~I Consider using providedIn: \"root\" for singleton services"

\* The messages of the rules among from..9 that hold, in table order.
RECURSIVE RuleFindings(_, _, _)
RuleFindings(from, code, type) ==
    IF from > 9 THEN <<>>
    ELSE (IF RuleHolds(from, code, type) THEN <<RuleMessage(from)>> ELSE <<>>)
         \o RuleFindings(from + 1, code, type)

\* C6: for a code text, the findings listed in the answer of
\* validate_angular_code are the messages of the rules of the nine-rule table
\* that hold, each once and in table order; rules 6-9 show only under the type
\* they belong to, never a component-only with a service-only one.
C6_FindingsAreTheRulesThatHold ==
    (ToolDone("validate_angular_code") /\ request.args.code.t = "string")
    => LET found == IssueLines(ResponseText)
           expected == RuleFindings(1, request.args.code.s, request.args.type)
       IN  /\ SuccessEnvelope
           /\ found = [k \in 1..Len(expected) |-> "- " \o expected[k]]
           /\ \A i, j \in 1..Len(found) : found[i] = found[j] => i = j
           /\ request.args.type \notin {Str("component"), Str("service")} =>
                 \A i \in 1..Len(found), k \in 6..9 : found[i] # "- " \o RuleMessage(k)
           /\ ~\E i, j \in 1..Len(found) :
                 /\ found[i] \in {"- " \o RuleMessage(k) : k \in 6..7}
                 /\ found[j] \in {"- " \o RuleMessage(k) : k \in 8..9}

C6_Witness ==
    /\ ToolDone("validate_angular_code")
    /\ request.args.code = Str("let x: any = 1")
    /\ request.args.type = Str("component")
    /\ IssueLines(ResponseText)
          = <<"- " \o RuleMessage(1), "- " \o RuleMessage(6), "- " \o RuleMessage(7)>>

\* C7: the text of a validate_angular_code response shows the success banner
\* exactly when there are no findings, and otherwise an "Issues Found" list
\* with one "- " bullet per finding, in order; either way the whole guideline
\* document follows and the envelope carries no error flag.
C7_BannerOrBulletsThenGuidelines ==
    (ToolDone("validate_angular_code") /\ ~thrown.threw)
    => LET found == issues(request.args.code, request.args.type)
           listed == IssueLines(ResponseText)
       IN  /\ SuccessEnvelope
           /\ ShowsBanner(ResponseText) <=> found = <<>>
           /\ ShowsIssuesFound(ResponseText) <=> found # <<>>
           /\ listed = [k \in 1..Len(found) |-> "- " \o found[k]]
           /\ endsWith(ResponseText, GuidelinesTail)

C7_Witness ==
    /\ ToolDone("validate_angular_code")
    /\ request.args.code = Str("ngClassngStyle")
    /\ request.args.type = Str("general")
    /\ IssueLines(ResponseText)
          = <<"- ~X Use [class] bindings instead of ngClass",
              "- ~X Use [style] bindings instead of ngStyle">>
    /\ ~ShowsBanner(ResponseText)

\* C8 as claimed: validate_angular_code succeeds for every code that is a
\* string, and answers with the failure envelope only when code is absent.
C8_FailsOnlyWhenCodeIsAbsent ==
    ToolDone("validate_angular_code") =>
        /\ request.args.code.t = "string" => SuccessEnvelope
        /\ ErrorFlagged => request.args.code \in {Undefined, Null}

\* C8, amended: validate_angular_code succeeds for every code that is a string
\* (the empty one too) with any type; it answers with the failure envelope
\* when code is absent, and otherwise only for a code that is not a string
\* (a number has no includes method; an array has one and succeeds).
C8_FailsOnlyWhenCodeIsNoString ==
    ToolDone("validate_angular_code") =>
        /\ request.args.code.t = "string" => SuccessEnvelope
        /\ request.args.code \in {Undefined, Null} =>
              ErrorFlagged /\ startsWith(ResponseText, "Error: Cannot read properties of ")
        /\ ErrorFlagged <=> request.args.code.t \in {"undefined", "null", "number"}
        /\ ~ErrorFlagged => SuccessEnvelope

C8_Witness ==
    /\ ToolDone("validate_angular_code")
    /\ request.args.code = Str("")
    /\ request.args.type = Str("bogus")
    /\ SuccessEnvelope
    /\ ShowsBanner(ResponseText)

\* C9: validating the catalog's component entry, or the README's good
\* component, as a component gives no finding and the success banner.
C9_ShippedComponentIsClean ==
    (/\ ToolDone("validate_angular_code")
     /\ request.args.type = Str("component")
     /\ request.args.code \in {Str(CODE_EXAMPLES["component"]), Str(README_GOOD_EXAMPLE)})
    => /\ SuccessEnvelope
       /\ IssueLines(ResponseText) = <<>>
       /\ ~ShowsIssuesFound(ResponseText)
       /\ ShowsBanner(ResponseText)

C9_Witness ==
    /\ ToolDone("validate_angular_code")
    /\ request.args.type = Str("component")
    /\ request.args.code = Str(README_GOOD_EXAMPLE)
    /\ startsWith(ResponseText, "# Code Validation Results\n\n~K Code looks good!")

\* C10: get_code_example("all") gives one text block holding the component
\* entry and the service entry, each once, the component entry first, each
\* right under its own subheading; "component" and "service" give the one
\* entry under "# Component Example" / "# Service Example".
C10_ExamplesUnderTheirHeadings ==
    /\ (ToolDone("get_code_example") /\ request.args.type = Str("all")) =>
          LET comp == Occurrences(ResponseText, CODE_EXAMPLES["component"])
              serv == Occurrences(ResponseText, CODE_EXAMPLES["service"])
          IN  /\ SuccessEnvelope
              /\ Cardinality(comp) = 1
              /\ Cardinality(serv) = 1
              /\ \A i \in comp, j \in serv : i < j
              /\ includes(ResponseText, "## Component Example" \o CODE_EXAMPLES["component"])
              /\ includes(ResponseText, "## Service Example" \o CODE_EXAMPLES["service"])
    /\ (ToolDone("get_code_example") /\ request.args.type = Str("component")) =>
          /\ SuccessEnvelope
          /\ ResponseText = "# Component Example\n" \o CODE_EXAMPLES["component"]
    /\ (ToolDone("get_code_example") /\ request.args.type = Str("service")) =>
          /\ SuccessEnvelope
          /\ ResponseText = "# Service Example\n" \o CODE_EXAMPLES["service"]

C10_Witness ==
    /\ ToolDone("get_code_example")
    /\ request.args.type = Str("all")
    /\ startsWith(ResponseText, "# Angular Code Examples\n\n## Component Example\n// Good")
    /\ ~outcome.isError

\* C11: after any sequence of requests, answered or failing, the guideline
\* document and the example catalog are those of the start, list_tools and
\* list_prompts give the lists of the start, and a request is answered as
\* the same request was answered earlier, whatever was handled in between.
C11_ContentAndAnswersNeverChange ==
    /\ guidelines = ANGULAR_GUIDELINES
    /\ examples = CODE_EXAMPLES
    /\ (phase = "done" /\ request.method = "tools/list") =>
          outcome.tools = toolList /\ outcome.keys = {"tools"}
    /\ (phase = "done" /\ request.method = "prompts/list") =>
          outcome.prompts = promptList /\ outcome.keys = {"prompts"}
    /\ (phase = "done" /\ earlier.request = request) => outcome = earlier.outcome

C11_Witness ==
    /\ phase = "done"
    /\ request.method = "tools/call"
    /\ request.name = "validate_angular_code"
    /\ request.args.code = Str("any")
    /\ earlier.request = request
    /\ earlier.since = 2
    /\ outcome = earlier.outcome
    /\ endsWith(ResponseText, GuidelinesTail)

\* C12: get_prompt of create_angular_component with a componentName answers
\* with one user message whose text holds the name, the whole guideline
\* document and the features as supplied; "Basic component structure" is in
\* the place of the features exactly when no features argument is supplied.
C12_FeaturesAreEmbeddedAsSupplied ==
    (/\ PromptGetDone
     /\ request.name = "create_angular_component"
     /\ request.args.componentName.t = "string"
     /\ request.args.features.t \in {"undefined", "string"})
    => /\ outcome.kind = "response"
       /\ outcome.keys = {"messages"}
       /\ Len(outcome.messages) = 1
       /\ outcome.messages[1].role = "user"
       /\ outcome.messages[1].text =
             "Create a new Angular component named \"" \o request.args.componentName.s
             \o "\" following these best practices:\n" \o ANGULAR_GUIDELINES
             \o "\n\nFeatures requested: "
             \o (IF request.args.features = Undefined THEN "Basic component structure"
                 ELSE request.args.features.s)
             \o "\n\nEnsure the component uses modern Angular features like signals, standalone components, and proper TypeScript typing."

\* C13, as the specification states it: get_angular_guidelines never answers
\* with an error-flagged envelope, and answers with the whole guideline
\* document, unchanged, when section is "all", is absent, is a string other
\* than the six section names, or looks up a phrase that is on no line of
\* the document.
C13_WholeDocumentIsTheFallback ==
    ToolDone("get_angular_guidelines") =>
        LET section == request.args.section
            sectionTitle == GetProperty(sectionMap, section)
            doc == split(ANGULAR_GUIDELINES)
        IN  /\ SuccessEnvelope
            /\ ~ErrorFlagged
            /\ (\/ section = Str("all")
                \/ section = Undefined
                \/ section.t = "string" /\ section.s \notin SectionNames
                \/ /\ Truthy(sectionTitle)
                   /\ \A i \in 1..Len(doc) : ~includes(doc[i], ToString(sectionTitle)))
               => ResponseText = ANGULAR_GUIDELINES

\* C13, amended: get_angular_guidelines answers with an error-flagged
\* envelope exactly when section is an object with an own toString member,
\* which does not convert to a property key, and the text is then "Error:
\* Cannot convert object to primitive value"; every other section value gets
\* a non-error envelope, holding the whole guideline document, unchanged,
\* when section is "all", is absent, is a string other than the six section
\* names, or looks up a phrase that is on no line of the document.
C13_WholeDocumentUnlessTheKeyDoesNotConvert ==
    ToolDone("get_angular_guidelines") =>
        LET section == request.args.section
            sectionTitle == GetProperty(sectionMap, section)
            doc == split(ANGULAR_GUIDELINES)
        IN  /\ ErrorFlagged <=> HasOwnToString(section)
            /\ ErrorFlagged => FailureEnvelope("Cannot convert object to primitive value")
            /\ ~ErrorFlagged => SuccessEnvelope
            /\ (\/ section = Str("all")
                \/ section = Undefined
                \/ section.t = "string" /\ section.s \notin SectionNames
                \/ /\ ~HasOwnToString(section)
                   /\ Truthy(sectionTitle)
                   /\ \A i \in 1..Len(doc) : ~includes(doc[i], ToString(sectionTitle)))
               => ResponseText = ANGULAR_GUIDELINES

C13_Witness ==
    /\ ToolDone("get_angular_guidelines")
    /\ request.args.section = Str("constructor")
    /\ Truthy(GetProperty(sectionMap, request.args.section))
    /\ SuccessEnvelope
    /\ ResponseText = ANGULAR_GUIDELINES

Produced == phase = "done" /\ outcome.kind \in {"response", "rejected"}

\* C14: requests are handled one at a time: the request in hand is left
\* only when its handling has produced its outcome, a response or a
\* rejection, so no handling starts while another is under way; and every
\* request the transport has read eventually has its outcome.
C14_OneRequestAtATime ==
    /\ [][request' # request => (request = NoRequest \/ Produced)]_vars
    /\ [](phase = "handling" => outcome = NoOutcome)
    /\ \A req \in StreamRequests :
          (\E i \in 1..Len(inbox) : inbox[i] = req) ~> (Produced /\ request = req)

C14_Witness ==
    /\ Produced
    /\ outcome.kind = "rejected"
    /\ request.name = "bogus_prompt"
    /\ Len(inbox) = MaxInbox
    /\ inbox[1].method = "tools/call"

====
